---- MODULE Spec2Model ----
(***************************************************************************)
(* Model of the rendezvous server of src/src/main.rs: the peer registry    *)
(* (peers_set), the dispatcher loop of main (tokio::select! over the       *)
(* liveness tick and the swarm's events), and the GET /peers handler.      *)
(*                                                                         *)
(* The specifications:                                                     *)
(*   Spec          the dispatcher loop alone, over the full input sets;    *)
(*   SpecHttp      the dispatcher loop together with the GET /peers        *)
(*                 handlers, over smaller input sets;                      *)
(*   SpecUpserts   one registration per identity, handled in any order;    *)
(*   SpecNormalize the address normalisation of the PeerRegistered arm as  *)
(*                 a pure function, applied to every bounded Multiaddr;    *)
(*   SpecBoot      the startup of main in every environment, then the loop;*)
(*   SpecEngine    the loop with the rendezvous behaviour's registrations; *)
(*   SpecFair      the select! with its two sources, fairly scheduled;     *)
(*   SpecFairHttp  the loop and the handlers, fairly scheduled.            *)
(***************************************************************************)
EXTENDS Integers, Sequences, FiniteSets, Bags

VARIABLES
    peers_set,      \* the registry: a HashMap<PeerId, PeerStat>, as a set of entries
    now,            \* the system clock, in epoch seconds
    main_pc,        \* where main is: "select", "tick" or "exited"
    lock,           \* the holder of the registry's Mutex: "free", "main" or a handler
    tick_keys,      \* tick: keys of the entries the for loop has not visited yet
    tick_addrs,     \* tick: addresses of the current entry not visited yet
    dials,          \* tick: bag of the address strings swarm.dial was called with
    http_pc,        \* per GET /peers handler: "idle", "lock", "copy", "respond"
    http_peers,     \* per handler: the Vec<PeerStat> it collected
    clone_keys,     \* keys of the entries the handler holding the lock has yet to clone
    upserts,        \* SpecUpserts: the registration each identity sends, and when
    norm_in,        \* SpecNormalize: the peer and the Multiaddr being normalised
    norm_out,       \* SpecNormalize: the results of normalising once, twice, ...
    env,            \* the environment main starts in: .env file, variables, ports
    http_task,      \* the spawned HTTP task: "none", "spawned", "serving", "panicked"
    registrations,  \* the rendezvous behaviour's own table: the valid <<peer, namespace>>
    pending,        \* SpecFair: the event swarm.select_next_some() has ready, if any
    tick_due        \* SpecFair: whether ping_peers_tick.tick() is ready

vars == <<peers_set, now, main_pc, lock, tick_keys, tick_addrs, dials,
          http_pc, http_peers, clone_keys, upserts, norm_in, norm_out,
          env, http_task, registrations, pending, tick_due>>

-----------------------------------------------------------------------------
(* Bounds and input sets *)

\* The clock runs from 0 to MaxTime.
MaxTime == 1

\* Multiaddrs of SpecNormalize have at most MaxProtocols protocols.
MaxProtocols == 3

\* Peer identities.
PeerIds == {"P", "Q"}

\* Round-trip times the ping behaviour reports, in microseconds.
Rtts == {2500, 7000}

\* Namespaces of registrations.
Namespaces == {"aura"}

\* The GET /peers handlers that may run concurrently.
Handlers == {"h1", "h2"}

-----------------------------------------------------------------------------
(* Multiaddr: a sequence of protocols; its text is the sequence of the     *)
(* segments between the '/' of its string form.                            *)

\* PeerId::to_string: the base58 text of a peer identity.
PeerIdToString(peer) ==
    CASE peer = "P" -> "12D3KooWP"
      [] peer = "Q" -> "12D3KooWQ"

\* Protocol::P2p(peer)
P2p(peer) == [tag |-> "p2p", val |-> peer]

\* Protocol::Tcp(port)
Tcp == [tag |-> "tcp", val |-> "4001"]

\* Protocol::Dns(name): the wire form carries any UTF-8 name, also one with a '/'.
Dns(name) == [tag |-> "dns", val |-> name]

DnsNames == {"host", "a/b"}

Protocols == {P2p(p) : p \in PeerIds} \cup {Tcp} \cup {Dns(n) : n \in DnsNames}

\* The segments of the text of a protocol's value, split at '/'.
ValueSegments(proto) ==
    CASE proto.tag = "p2p" -> <<PeerIdToString(proto.val)>>
      [] proto.tag = "tcp" -> <<proto.val>>
      [] proto.tag = "dns" -> IF proto.val = "a/b" THEN <<"a", "b">> ELSE <<proto.val>>

\* Multiaddr::to_string (Display): "/tag/value" of every protocol, in order.
RECURSIVE MultiaddrToString(_)
MultiaddrToString(addr) ==
    IF addr = <<>> THEN <<>>
    ELSE <<Head(addr).tag>> \o ValueSegments(Head(addr)) \o MultiaddrToString(Tail(addr))

\* str::parse::<Multiaddr>: reads a tag, then one segment as its value; fails on an
\* unknown tag, a missing value or a value the protocol rejects.
RECURSIVE Parse(_)
Parse(text) ==
    IF text = <<>> THEN [ok |-> TRUE, addr |-> <<>>]
    ELSE IF Len(text) < 2 \/ Head(text) \notin {"p2p", "tcp", "dns"}
    THEN [ok |-> FALSE, addr |-> <<>>]
    ELSE LET tag  == text[1]
             seg  == text[2]
             rest == Parse(SubSeq(text, 3, Len(text)))
             good == CASE tag = "p2p" -> \E p \in PeerIds : PeerIdToString(p) = seg
                       [] tag = "tcp" -> seg = "4001"
                       [] tag = "dns" -> TRUE
             val  == IF tag = "p2p"
                     THEN CHOOSE p \in PeerIds : PeerIdToString(p) = seg
                     ELSE seg
         IN  IF good /\ rest.ok
             THEN [ok |-> TRUE, addr |-> <<[tag |-> tag, val |-> val]>> \o rest.addr]
             ELSE [ok |-> FALSE, addr |-> <<>>]

\* Multiaddr::ends_with
EndsWith(addr, suffix) ==
    /\ Len(addr) >= Len(suffix)
    /\ SubSeq(addr, Len(addr) - Len(suffix) + 1, Len(addr)) = suffix

\* Multiaddr::with
With(addr, proto) == Append(addr, proto)

\* Mutant of AddressWithP2p: the address is stored as it was registered.
AddressAsGiven(peer, address) == address

\* Mutant of AddressWithP2p: the suffix is appended without the ends_with test.
AddressAlwaysSuffixed(peer, address) == With(address, P2p(peer))

\* The address_with_p2p of the PeerRegistered arm.
AddressWithP2p(peer, address) ==
    IF ~EndsWith(address, With(<<>>, P2p(peer)))
    THEN With(address, P2p(peer))
    ELSE address

-----------------------------------------------------------------------------
(* The registry: HashMap<PeerId, PeerStat> behind Arc<Mutex<..>>, as the set *)
(* of its entries [key, value].                                              *)

\* Option<u64>
None == <<>>
Some(x) == <<x>>

\* struct AddrInfo
AddrInfo(text) == [address |-> text]

\* struct PeerStat
PeerStat(peer, addrinfo, ping, last_seen) ==
    [peer |-> peer, addrinfo |-> addrinfo, ping |-> ping, last_seen |-> last_seen]

Keys(map) == {e.key : e \in map}

Values(map) == {e.value : e \in map}

ContainsKey(map, k) == \E e \in map : e.key = k

\* HashMap::get
MapGet(map, k) == (CHOOSE e \in map : e.key = k).value

\* Mutant of MapInsert: the entry of an equal key is kept beside the new one.
MapInsertKeepOld(map, k, v) == map \cup {[key |-> k, value |-> v]}

\* HashMap::insert: the entry of an equal key is replaced.
MapInsert(map, k, v) == {e \in map : e.key # k} \cup {[key |-> k, value |-> v]}

\* HashMap::remove
MapRemove(map, k) == {e \in map : e.key # k}

\* Mutant of AsMillis: the round-trip time is stored in microseconds.
AsMicros(rtt) == rtt

\* Duration::as_millis
AsMillis(rtt) == rtt \div 1000

-----------------------------------------------------------------------------
(* Events of the swarm *)

\* A registration as the rendezvous behaviour reports it: the namespace and the
\* signed peer record (peer id, addresses).
Registration(ns, peer_id, addresses) ==
    [namespace |-> ns, record |-> [peer_id |-> peer_id, addresses |-> addresses]]

\* The addresses a peer may put in its record: without an identity suffix, with
\* its own, with the suffix of another peer, and with a Dns name that holds a '/'.
RawAddrs(p) ==
    {<<Tcp>>, <<Tcp, P2p(p)>>, <<Dns("a/b"), Tcp>>}
        \cup {<<Tcp, P2p(q)>> : q \in PeerIds \ {p}}

AddrLists(p) ==
    {<<>>} \cup {<<a>> : a \in RawAddrs(p)}
           \cup {<<a, b>> : a \in RawAddrs(p), b \in RawAddrs(p)}

\* The address lists of SpecHttp.
SmallAddrLists(p) == {<<<<Tcp>>>>, <<<<Tcp, P2p(p)>>, <<Dns("a/b"), Tcp>>>>}

\* The events the select arm matches without touching the registry.
LogOnlyKinds ==
    {"NewListenAddr", "ConnectionEstablished", "ConnectionClosed",
     "DiscoverServed", "PingErr", "Other"}

-----------------------------------------------------------------------------
(* The dispatcher: the loop of main *)

\* Every action of the loop starts at the select! and needs the process alive.
AtSelect == main_pc = "select"

\* Mutant of CanLock: the registry is reached without waiting for the mutex.
CanLockAlways == TRUE

\* Mutex::lock returns once no other guard is alive.
CanLock == lock = "free"

TickVars == <<tick_keys, tick_addrs, dials>>
HttpVars == <<http_pc, http_peers, clone_keys>>
NormVars == <<norm_in, norm_out>>
BootVars == <<env, http_task>>
EngineVars == <<registrations, pending, tick_due>>

\* What the process itself holds; EngineVars describe the swarm's side of the
\* select!, which the handling of an event leaves to the specification.
ProgramVars == <<peers_set, now, main_pc, lock, TickVars, HttpVars, upserts,
                 NormVars, BootVars>>

\* What one pass of the for loop of the PeerRegistered arm pushes for an address
\* of the record of peer: address_with_p2p.to_string(), tabulated over the inputs.
StoredAddress ==
    [peer \in PeerIds |->
        [address \in UNION {RawAddrs(p) : p \in PeerIds} |->
            MultiaddrToString(AddressWithP2p(peer, address))]]

\* The addresses vector the PeerRegistered arm builds from the record.
NormalizedAddrInfo(registration) ==
    [i \in 1..Len(registration.record.addresses) |->
        AddrInfo(StoredAddress[registration.record.peer_id]
                              [registration.record.addresses[i]])]

\* Mutant of InsertRegistered: a record that exists keeps its ping.
InsertRegisteredKeepPing(map, peer, registration, time) ==
    MapInsert(map, peer,
              PeerStat(PeerIdToString(peer), NormalizedAddrInfo(registration),
                       IF ContainsKey(map, peer) THEN MapGet(map, peer).ping ELSE None,
                       time))

\* Mutant of InsertRegistered: the map is rebuilt with the new record alone.
InsertRegisteredAlone(map, peer, registration, time) ==
    {[key |-> peer,
      value |-> PeerStat(PeerIdToString(peer), NormalizedAddrInfo(registration),
                         None, time)]}

\* The registry after the PeerRegistered arm.
InsertRegistered(map, peer, registration, time) ==
    MapInsert(map, peer,
              PeerStat(PeerIdToString(peer), NormalizedAddrInfo(registration),
                       None, time))

\* rendezvous::server::Event::PeerRegistered { peer, registration }
\* (upserts, the record of SpecUpserts, is left to the specification, as the
\* EngineVars are by every arm of the select!.)
PeerRegistered(peer, registration) ==
    /\ AtSelect
    /\ CanLock
    /\ peers_set' = InsertRegistered(peers_set, peer, registration, now)
    /\ UNCHANGED <<now, main_pc, lock, TickVars, HttpVars, NormVars, BootVars>>

\* Mutant of RemoveExpired: the record is left in the map.
RemoveExpiredNothing(map, registration) == map

\* The registry after the RegistrationExpired arm.
RemoveExpired(map, registration) == MapRemove(map, registration.record.peer_id)

\* rendezvous::server::Event::RegistrationExpired(registration)
RegistrationExpired(registration) ==
    /\ AtSelect
    /\ CanLock
    /\ peers_set' = RemoveExpired(peers_set, registration)
    /\ UNCHANGED <<now, main_pc, lock, TickVars, HttpVars, upserts, NormVars, BootVars>>

\* Mutant of UpdatePing: a record is created when the peer has none.
UpdatePingUpsert(map, peer, rtt, time) ==
    MapInsert(map, peer,
              IF ContainsKey(map, peer)
              THEN [MapGet(map, peer) EXCEPT !.ping = Some(AsMillis(rtt)),
                                             !.last_seen = time]
              ELSE PeerStat(PeerIdToString(peer), <<>>, Some(AsMillis(rtt)), time))

\* The registry after the Ping Ok arm: get_mut, then the two assignments.
UpdatePing(map, peer, rtt, time) ==
    IF ContainsKey(map, peer)
    THEN LET peer_stats == MapGet(map, peer)
         IN  MapInsert(map, peer,
                       [peer_stats EXCEPT !.ping = Some(AsMillis(rtt)),
                                          !.last_seen = time])
    ELSE map

\* ping::Event { peer, result: Ok(rtt), .. }
PingOk(peer, rtt) ==
    /\ AtSelect
    /\ CanLock
    /\ peers_set' = UpdatePing(peers_set, peer, rtt, now)
    /\ UNCHANGED <<now, main_pc, lock, TickVars, HttpVars, upserts, NormVars, BootVars>>

\* Mutant of LogOnly: a closed connection drops the record of its peer.
LogOnlyForgets(kind, peer) ==
    /\ AtSelect
    /\ kind \in LogOnlyKinds
    /\ peers_set' = IF kind = "ConnectionClosed" THEN MapRemove(peers_set, peer)
                    ELSE peers_set
    /\ UNCHANGED <<now, main_pc, lock, TickVars, HttpVars, upserts, NormVars, BootVars>>

\* The arms that only log: NewListenAddr, ConnectionEstablished, ConnectionClosed,
\* DiscoverServed, and the catch-all (a failed ping, PeerUnregistered, ...).
LogOnly(kind, peer) ==
    /\ AtSelect
    /\ kind \in LogOnlyKinds
    /\ UNCHANGED ProgramVars

\* The clock advances.
ClockAdvance ==
    /\ main_pc # "exited"
    /\ now < MaxTime
    /\ now' = now + 1
    /\ UNCHANGED <<peers_set, main_pc, lock, TickVars, HttpVars, upserts, NormVars, BootVars, EngineVars>>

(* The ping_peers_tick arm.  The MutexGuard of peers_set.lock() is a temporary *)
(* of the for expression: it lives until the loop ends.                        *)

\* ping_peers_tick.tick() fires: the registry is locked and the iteration starts.
TickStart ==
    /\ AtSelect
    /\ CanLock
    /\ lock' = "main"
    /\ main_pc' = "tick"
    /\ tick_keys' = Keys(peers_set)
    /\ tick_addrs' = <<>>
    /\ dials' = EmptyBag
    /\ UNCHANGED <<peers_set, now, HttpVars, upserts, NormVars, BootVars>>

\* The outer for takes the next entry, in the map's own order.
TickPeer(peer) ==
    /\ main_pc = "tick"
    /\ tick_addrs = <<>>
    /\ peer \in tick_keys
    /\ tick_keys' = tick_keys \ {peer}
    /\ tick_addrs' = MapGet(peers_set, peer).addrinfo
    /\ UNCHANGED <<peers_set, now, main_pc, lock, dials, HttpVars, upserts, NormVars, BootVars, EngineVars>>

\* What the inner for does with one address: "exit" when parse()? returns the error
\* from main, "dial" when swarm.dial is called (its own error is only logged).
DialOutcome(text, dial_ok) == IF Parse(text).ok THEN "dial" ELSE "exit"

\* One pass of the inner for.
TickDial(dial_ok) ==
    /\ main_pc = "tick"
    /\ tick_addrs # <<>>
    /\ LET text == Head(tick_addrs).address
       IN  IF DialOutcome(text, dial_ok) = "dial"
           THEN /\ dials' = dials (+) SetToBag({text})
                /\ tick_addrs' = Tail(tick_addrs)
                /\ UNCHANGED <<main_pc, lock, tick_keys>>
           ELSE /\ main_pc' = "exited"
                /\ lock' = "free"
                /\ UNCHANGED <<tick_keys, tick_addrs, dials>>
    /\ UNCHANGED <<peers_set, now, HttpVars, upserts, NormVars, BootVars, EngineVars>>

\* The for loop ends: the guard is dropped and main is back at the select!.
TickEnd ==
    /\ main_pc = "tick"
    /\ tick_addrs = <<>>
    /\ tick_keys = {}
    /\ main_pc' = "select"
    /\ lock' = "free"
    /\ dials' = EmptyBag
    /\ UNCHANGED <<peers_set, now, tick_keys, tick_addrs, HttpVars, upserts, NormVars, BootVars, EngineVars>>

-----------------------------------------------------------------------------
(* Specification of the dispatcher loop *)

NoHttp == [h \in Handlers |-> "idle"]

NoUpserts == [p \in PeerIds |-> [addresses |-> <<>>, done |-> FALSE, at |-> 0]]

\* The environment in which every step of the startup succeeds.
GoodEnv == [dotenv |-> "ok", key |-> "ok", p2p |-> "ok", http |-> "ok"]

\* The startup is over: main is about to enter its loop, the HTTP task serves, the
\* rendezvous behaviour holds no registration, no event and no tick is ready.
Started ==
    /\ env = GoodEnv
    /\ http_task = "serving"
    /\ registrations = {}
    /\ pending = None
    /\ tick_due = FALSE

Init ==
    /\ peers_set = {}
    /\ now = 0
    /\ main_pc = "select"
    /\ lock = "free"
    /\ tick_keys = {}
    /\ tick_addrs = <<>>
    /\ dials = EmptyBag
    /\ http_pc = NoHttp
    /\ http_peers = [h \in Handlers |-> <<>>]
    /\ clone_keys = {}
    /\ upserts = NoUpserts
    /\ norm_in = [peer |-> "P", address |-> <<>>]
    /\ norm_out = <<>>
    /\ Started

\* The rendezvous server answers NotAuthorized to a registration whose record is
\* not the sender's own, so the peer of the event is the peer of the record.
Next ==
    \/ \E p \in PeerIds, ns \in Namespaces :
         \E as \in AddrLists(p) : PeerRegistered(p, Registration(ns, p, as))
         /\ UNCHANGED <<upserts, EngineVars>>
    \/ \E p \in PeerIds, ns \in Namespaces :
         RegistrationExpired(Registration(ns, p, <<>>)) /\ UNCHANGED EngineVars
    \/ \E p \in PeerIds, rtt \in Rtts : PingOk(p, rtt) /\ UNCHANGED EngineVars
    \/ \E kind \in LogOnlyKinds, p \in PeerIds :
         LogOnly(kind, p) /\ UNCHANGED EngineVars
    \/ ClockAdvance
    \/ TickStart /\ UNCHANGED EngineVars
    \/ \E p \in PeerIds : TickPeer(p)
    \/ \E dial_ok \in BOOLEAN : TickDial(dial_ok)
    \/ TickEnd

Spec == Init /\ [][Next]_vars

-----------------------------------------------------------------------------
(* The GET /peers handler, run by the HTTP task concurrently with main:     *)
(*   peers.lock().unwrap().clone().values().cloned().collect::<Vec<_>>()    *)
(* then async move { Json(peers) }.                                         *)

\* The sequences that list every element of a set once: a Vec collected from the
\* map's values, in the map's own order.
RECURSIVE Orderings(_)
Orderings(set) ==
    IF set = {} THEN {<<>>}
    ELSE UNION {{<<x>> \o rest : rest \in Orderings(set \ {x})} : x \in set}

\* A request is routed to the handler.
HttpRequest(h) ==
    /\ main_pc # "exited"
    /\ http_task = "serving"
    /\ http_pc[h] = "idle"
    /\ http_pc' = [http_pc EXCEPT ![h] = "lock"]
    /\ UNCHANGED <<peers_set, now, main_pc, lock, TickVars, http_peers, clone_keys,
                   upserts, NormVars, BootVars, EngineVars>>

\* peers.lock().unwrap(): waits for the mutex; the clone of the map starts.
HttpLock(h) ==
    /\ main_pc # "exited"
    /\ http_pc[h] = "lock"
    /\ CanLock
    /\ lock' = h
    /\ http_pc' = [http_pc EXCEPT ![h] = "copy"]
    /\ clone_keys' = Keys(peers_set)
    /\ UNCHANGED <<peers_set, now, main_pc, TickVars, http_peers, upserts, NormVars, BootVars, EngineVars>>

\* Mutant of HttpCopy: the entry is moved out of the map into the Vec.
HttpCopyTakes(h, k) ==
    /\ main_pc # "exited"
    /\ http_pc[h] = "copy"
    /\ k \in clone_keys
    /\ ContainsKey(peers_set, k)
    /\ http_peers' = [http_peers EXCEPT ![h] = Append(@, MapGet(peers_set, k))]
    /\ peers_set' = MapRemove(peers_set, k)
    /\ clone_keys' = clone_keys \ {k}
    /\ UNCHANGED <<now, main_pc, lock, TickVars, http_pc, upserts, NormVars, BootVars,
                   EngineVars>>

\* .clone().values().cloned().collect(): one entry is copied into the Vec, in the
\* map's own order, under the guard.
HttpCopy(h, k) ==
    /\ main_pc # "exited"
    /\ http_pc[h] = "copy"
    /\ k \in clone_keys
    /\ ContainsKey(peers_set, k)
    /\ http_peers' = [http_peers EXCEPT ![h] = Append(@, MapGet(peers_set, k))]
    /\ clone_keys' = clone_keys \ {k}
    /\ UNCHANGED <<peers_set, now, main_pc, lock, TickVars, http_pc, upserts, NormVars, BootVars, EngineVars>>

\* Mutant of HttpUnlock: the guard is kept while the response is made.
HttpUnlockLate(h) ==
    /\ main_pc # "exited"
    /\ http_pc[h] = "copy"
    /\ \A k \in clone_keys : ~ContainsKey(peers_set, k)
    /\ clone_keys' = {}
    /\ http_pc' = [http_pc EXCEPT ![h] = "respond"]
    /\ UNCHANGED <<peers_set, now, main_pc, lock, TickVars, http_peers, upserts,
                   NormVars, BootVars, EngineVars>>

\* The statement ends: the guard (a temporary) is dropped.
HttpUnlock(h) ==
    /\ main_pc # "exited"
    /\ http_pc[h] = "copy"
    /\ \A k \in clone_keys : ~ContainsKey(peers_set, k)
    /\ lock' = "free"
    /\ clone_keys' = {}
    /\ http_pc' = [http_pc EXCEPT ![h] = "respond"]
    /\ UNCHANGED <<peers_set, now, main_pc, TickVars, http_peers, upserts, NormVars, BootVars, EngineVars>>

\* async move { Json(peers) }: the collected Vec is serialized and sent.
HttpRespond(h) ==
    /\ main_pc # "exited"
    /\ http_pc[h] = "respond"
    /\ http_pc' = [http_pc EXCEPT ![h] = "idle"]
    /\ http_peers' = [http_peers EXCEPT ![h] = <<>>]
    /\ UNCHANGED <<peers_set, now, main_pc, lock, TickVars, clone_keys, upserts, NormVars, BootVars, EngineVars>>

\* The dispatcher over the input sets of SpecHttp.
NextHttp ==
    \/ \E p \in PeerIds, ns \in Namespaces :
         \E as \in SmallAddrLists(p) : PeerRegistered(p, Registration(ns, p, as))
         /\ UNCHANGED <<upserts, EngineVars>>
    \/ \E p \in PeerIds, ns \in Namespaces :
         RegistrationExpired(Registration(ns, p, <<>>)) /\ UNCHANGED EngineVars
    \/ \E p \in PeerIds : PingOk(p, 7000) /\ UNCHANGED EngineVars
    \/ \E kind \in LogOnlyKinds, p \in PeerIds :
         LogOnly(kind, p) /\ UNCHANGED EngineVars
    \/ TickStart /\ UNCHANGED EngineVars
    \/ \E p \in PeerIds : TickPeer(p)
    \/ \E dial_ok \in BOOLEAN : TickDial(dial_ok)
    \/ TickEnd
    \/ \E h \in Handlers : HttpRequest(h)
    \/ \E h \in Handlers : HttpLock(h)
    \/ \E h \in Handlers, k \in PeerIds : HttpCopy(h, k)
    \/ \E h \in Handlers : HttpUnlock(h)
    \/ \E h \in Handlers : HttpRespond(h)

SpecHttp == Init /\ [][NextHttp]_vars

-----------------------------------------------------------------------------
(* The normalisation as a pure function *)

\* The Multiaddrs of at most n protocols.
RECURSIVE Multiaddrs(_)
Multiaddrs(n) ==
    IF n = 0 THEN {<<>>}
    ELSE Multiaddrs(n - 1)
           \cup {Append(a, proto) : a \in Multiaddrs(n - 1), proto \in Protocols}

InitNormalize ==
    /\ peers_set = {}
    /\ now = 0
    /\ main_pc = "select"
    /\ lock = "free"
    /\ tick_keys = {}
    /\ tick_addrs = <<>>
    /\ dials = EmptyBag
    /\ http_pc = NoHttp
    /\ http_peers = [h \in Handlers |-> <<>>]
    /\ clone_keys = {}
    /\ upserts = NoUpserts
    /\ norm_in \in [peer : PeerIds, address : Multiaddrs(MaxProtocols)]
    /\ norm_out = <<>>
    /\ Started

\* The normalisation is applied to the input, then to its own result.
NormalizeStep ==
    /\ Len(norm_out) < 2
    /\ norm_out' = Append(norm_out,
                          AddressWithP2p(norm_in.peer,
                                         IF norm_out = <<>> THEN norm_in.address
                                         ELSE norm_out[Len(norm_out)]))
    /\ UNCHANGED <<peers_set, now, main_pc, lock, TickVars, HttpVars, upserts, norm_in, BootVars, EngineVars>>

NextNormalize == NormalizeStep

SpecNormalize == InitNormalize /\ [][NextNormalize]_vars

-----------------------------------------------------------------------------
(* One registration per identity, handled in any order *)

InitUpserts ==
    /\ peers_set = {}
    /\ now = 0
    /\ main_pc = "select"
    /\ lock = "free"
    /\ tick_keys = {}
    /\ tick_addrs = <<>>
    /\ dials = EmptyBag
    /\ http_pc = NoHttp
    /\ http_peers = [h \in Handlers |-> <<>>]
    /\ clone_keys = {}
    /\ upserts \in {[p \in PeerIds |-> [addresses |-> f[p], done |-> FALSE, at |-> 0]] :
                      f \in [PeerIds -> UNION {AddrLists(q) : q \in PeerIds}]}
    /\ \A p \in PeerIds : upserts[p].addresses \in AddrLists(p)
    /\ norm_in = [peer |-> "P", address |-> <<>>]
    /\ norm_out = <<>>
    /\ Started

\* The registration of p arrives and is handled.
Upsert(p) ==
    /\ ~upserts[p].done
    /\ \E ns \in Namespaces :
         PeerRegistered(p, Registration(ns, p, upserts[p].addresses))
    /\ upserts' = [upserts EXCEPT ![p].done = TRUE, ![p].at = now]
    /\ UNCHANGED EngineVars

NextUpserts ==
    \/ \E p \in PeerIds : Upsert(p)
    \/ ClockAdvance

SpecUpserts == InitUpserts /\ [][NextUpserts]_vars

-----------------------------------------------------------------------------
(* Properties *)

\* The identity suffix of a peer, as text.
SuffixText(p) == <<"p2p", PeerIdToString(p)>>

TextEndsWith(text, suffix) ==
    /\ Len(text) >= Len(suffix)
    /\ \A i \in 1..Len(suffix) : text[Len(text) - Len(suffix) + i] = suffix[i]

\* The normalized form of a registered address: its text, followed by the
\* identity suffix of the peer unless it ends with it already.
ExpectedAddress(p, a) ==
    IF TextEndsWith(MultiaddrToString(a), SuffixText(p))
    THEN MultiaddrToString(a)
    ELSE MultiaddrToString(a) \o SuffixText(p)

ExpectedAddrInfo(p, as) == [i \in 1..Len(as) |-> [address |-> ExpectedAddress(p, as[i])]]

\* The record a registration of p with addresses as, handled at time t, leaves.
ExpectedRecord(p, as, t) ==
    [peer |-> PeerIdToString(p), addrinfo |-> ExpectedAddrInfo(p, as),
     ping |-> <<>>, last_seen |-> t]

EntriesOf(map, k) == {e \in map : e.key = k}

OthersUnchanged(p) ==
    \A q \in PeerIds \ {p} : EntriesOf(peers_set', q) = EntriesOf(peers_set, q)

\* C1: no handling of RegistrationCreated for P with addresses A1..An ends
\* otherwise than with exactly one record keyed by P, with peer P, the normalized
\* forms of A1..An in order, ping unset and last_seen the current time, and with
\* the records of the other identities as they were; in every state there is at
\* most one record per identity.
C1_RegistrationCreatesOneRecord ==
    /\ \A e1 \in peers_set, e2 \in peers_set : e1.key = e2.key => e1 = e2
    /\ \A p \in PeerIds, ns \in Namespaces : \A as \in AddrLists(p) :
         ~ENABLED (/\ PeerRegistered(p, Registration(ns, p, as))
                   /\ ~(/\ EntriesOf(peers_set', p)
                             = {[key |-> p, value |-> ExpectedRecord(p, as, now)]}
                        /\ OthersUnchanged(p)))

\* P was registered at time 1 with an address without a suffix (or with its own)
\* and one that carries the suffix of Q, while Q has a record with a measured ping.
C1_Witness ==
    /\ now = 1
    /\ EntriesOf(peers_set, "P") =
         {[key |-> "P",
           value |-> [peer |-> "12D3KooWP",
                      addrinfo |-> <<[address |-> <<"tcp", "4001", "p2p", "12D3KooWP">>],
                                     [address |-> <<"tcp", "4001", "p2p", "12D3KooWQ",
                                                    "p2p", "12D3KooWP">>]>>,
                      ping |-> <<>>, last_seen |-> 1]]}
    /\ \E e \in peers_set : e.key = "Q" /\ e.value.ping # <<>>

\* C2: no handling of RegistrationExpired(P) ends with a record for P, with a
\* changed record of another identity or with an error (the loop not back at its
\* select); when P has no record it changes nothing.
C2_ExpiryRemovesOnlyThePeer ==
    \A p \in PeerIds, ns \in Namespaces :
        ~ENABLED (/\ RegistrationExpired(Registration(ns, p, <<>>))
                  /\ ~(/\ ~ContainsKey(peers_set', p)
                       /\ OthersUnchanged(p)
                       /\ main_pc' = "select"
                       /\ ~ContainsKey(peers_set, p) => UNCHANGED ProgramVars))

\* A response still in flight lists P, copied while P was registered; the registry
\* holds no record of P any more and still holds the record of Q.
C2_Witness ==
    /\ ~ContainsKey(peers_set, "P")
    /\ ContainsKey(peers_set, "Q")
    /\ \E h \in Handlers :
         /\ http_pc[h] = "respond"
         /\ \E i \in 1..Len(http_peers[h]) : http_peers[h][i].peer = "12D3KooWP"
         /\ \E i \in 1..Len(http_peers[h]) : http_peers[h][i] = MapGet(peers_set, "Q")

\* C3: a step that gives an identity a record it did not have is the handling of a
\* RegistrationCreated for that identity, and no handling of a successful liveness
\* result for an identity without a record changes the registry.
C3_OnlyRegistrationCreatesRecords ==
    /\ [][\A p \in PeerIds :
            (ContainsKey(peers_set', p) /\ ~ContainsKey(peers_set, p))
              => \E ns \in Namespaces : \E as \in AddrLists(p) :
                   PeerRegistered(p, Registration(ns, p, as))]_vars
    /\ [](\A p \in PeerIds, rtt \in Rtts :
            ~ENABLED (/\ PingOk(p, rtt)
                      /\ ~ContainsKey(peers_set, p)
                      /\ peers_set' # peers_set))

\* Liveness results have been handled (Q has a ping) and P, which has no record,
\* may get one: the loop is at its select with the mutex free.
C3_Witness ==
    /\ ~ContainsKey(peers_set, "P")
    /\ \E e \in peers_set : e.key = "Q" /\ e.value.ping = <<7>>
    /\ ENABLED PingOk("P", 2500)

\* C4: no handling of a registration of P while P has a record with a measured
\* ping ends otherwise than with a single record for P that holds the normalized
\* new addresses, ping unset and last_seen the current time.
C4_ReregistrationReplacesRecord ==
    \A p \in PeerIds, ns \in Namespaces : \A as \in AddrLists(p) :
        (ContainsKey(peers_set, p) /\ MapGet(peers_set, p).ping # <<>>)
          => ~ENABLED (/\ PeerRegistered(p, Registration(ns, p, as))
                       /\ ~(/\ Cardinality(EntriesOf(peers_set', p)) = 1
                            /\ MapGet(peers_set', p).peer = PeerIdToString(p)
                            /\ MapGet(peers_set', p).addrinfo = ExpectedAddrInfo(p, as)
                            /\ MapGet(peers_set', p).ping = <<>>
                            /\ MapGet(peers_set', p).last_seen = now))

\* P was registered at time 0 with [A], its ping was measured, the clock moved on,
\* and a registration of P with [B] can be handled.
C4_Witness ==
    /\ now = 1
    /\ EntriesOf(peers_set, "P") =
         {[key |-> "P",
           value |-> [peer |-> "12D3KooWP",
                      addrinfo |-> <<[address |-> <<"tcp", "4001", "p2p", "12D3KooWP">>]>>,
                      ping |-> <<2>>, last_seen |-> 0]]}
    /\ ENABLED PeerRegistered("P", Registration("aura", "P", <<<<Dns("a/b"), Tcp>>>>))

C7_ResponseIsOneSnapshot ==
    [][\A h \in Handlers :
         /\ (http_pc[h] = "copy" /\ http_pc'[h] = "respond")
              => /\ http_peers'[h] \in Orderings(Values(peers_set))
                 /\ peers_set' = peers_set
         /\ (lock = h /\ lock' = h) => peers_set' = peers_set
         /\ (http_pc[h] = "respond" /\ http_pc'[h] = "respond")
              => http_peers'[h] = http_peers[h]]_vars

\* A response in flight lists two records, one with a ping, and the registry has
\* changed since the copy.
C7_Witness ==
    \E h \in Handlers :
        /\ http_pc[h] = "respond"
        /\ Len(http_peers[h]) = 2
        /\ \E i \in 1..2 : http_peers[h][i].ping # <<>>
        /\ http_peers[h] \notin Orderings(Values(peers_set))
        /\ Cardinality(peers_set) = 2

\* The tick is over: its for loop has visited everything, or main has returned.
TickOver ==
    \/ main_pc = "tick" /\ tick_keys = {} /\ tick_addrs = <<>>
    \/ main_pc = "exited"

\* The stored addresses of all records, each as often as it is stored.
StoredAddressBag ==
    LET slots == UNION {{<<e.key, i>> : i \in 1..Len(e.value.addrinfo)} : e \in peers_set}
        text(s) == MapGet(peers_set, s[1]).addrinfo[s[2]].address
    IN  [t \in {text(s) : s \in slots} |-> Cardinality({s \in slots : text(s) = t})]

\* C8: when a tick is over, swarm.dial has been called once for every stored
\* address of every record.
C8_TickDialsEveryStoredAddress == TickOver => dials = StoredAddressBag

\* C9: the step the tick takes at a stored address that does not parse goes on to
\* the next address; the loop does not end.
C9_MalformedAddressIsSkipped ==
    [][(/\ main_pc = "tick"
        /\ tick_addrs # <<>>
        /\ ~Parse(Head(tick_addrs).address).ok
        /\ <<main_pc, tick_addrs>>' # <<main_pc, tick_addrs>>)
         => (main_pc' = "tick" /\ tick_addrs' = Tail(tick_addrs))]_vars

\* C10: once the registrations of all identities are handled, in whatever order,
\* the registry holds one record per identity, each with the addresses and the
\* time of its own registration.
C10_DistinctUpsertsAllPersist ==
    /\ Cardinality(peers_set) = Cardinality({p \in PeerIds : upserts[p].done})
    /\ \A p \in PeerIds :
         upserts[p].done
           => EntriesOf(peers_set, p) =
                {[key |-> p,
                  value |-> ExpectedRecord(p, upserts[p].addresses, upserts[p].at)]}

\* Both registrations are handled, Q's before and P's after the clock moved, each
\* with two addresses of its own.
C10_Witness ==
    /\ \A p \in PeerIds : upserts[p].done /\ Len(upserts[p].addresses) = 2
    /\ upserts["Q"].at = 0
    /\ upserts["P"].at = 1
    /\ upserts["P"].addresses # upserts["Q"].addresses
    /\ Cardinality(peers_set) = 2

\* The round-trip times of Rtts in whole milliseconds.
ExpectedMillis(rtt) ==
    CASE rtt = 2500 -> 2
      [] rtt = 7000 -> 7

\* C11: no handling of a successful liveness result with round-trip time rtt for
\* an identity P that has a record ends otherwise than with the record of P as it
\* was (identity and address list as registered) except for ping, now rtt in
\* milliseconds, and last_seen, now the current time, and with the records of the
\* other identities as they were.
C11_PingUpdatesOnlyPingAndLastSeen ==
    \A p \in PeerIds, rtt \in Rtts :
        ContainsKey(peers_set, p)
          => ~ENABLED (/\ PingOk(p, rtt)
                       /\ ~(/\ EntriesOf(peers_set', p) =
                                 {[key |-> p,
                                   value |-> [MapGet(peers_set, p) EXCEPT
                                                !.ping = <<ExpectedMillis(rtt)>>,
                                                !.last_seen = now]]}
                            /\ OthersUnchanged(p)
                            /\ UNCHANGED <<now, main_pc, lock>>))

\* P was registered at time 0 with two addresses and its ping of 7000 us was
\* handled at time 1; the record of Q, registered at time 0, carries an earlier
\* ping of 2500 us.
C11_Witness ==
    /\ EntriesOf(peers_set, "P") =
         {[key |-> "P",
           value |-> [peer |-> "12D3KooWP",
                      addrinfo |-> <<[address |-> <<"tcp", "4001", "p2p", "12D3KooWP">>],
                                     [address |-> <<"dns", "a", "b", "tcp", "4001",
                                                    "p2p", "12D3KooWP">>]>>,
                      ping |-> <<7>>, last_seen |-> 1]]}
    /\ \E e \in peers_set : e.key = "Q" /\ e.value.ping = <<2>> /\ e.value.last_seen = 0

\* C12: no handling of a discovery-served event, a failed liveness result, a
\* connection-established or connection-closed event, a new listen address or any
\* event of the catch-all arm ends with a registry that differs from the one it
\* started with, whichever peer the event is about, nor with the loop anywhere
\* but back at its select.
C12_LogOnlyEventsChangeNothing ==
    \A kind \in LogOnlyKinds, p \in PeerIds :
        ~ENABLED (/\ LogOnly(kind, p)
                  /\ ~(peers_set' = peers_set /\ main_pc' = "select" /\ lock' = lock))

\* P has a record with a measured ping and a last_seen older than the clock, Q has
\* none, and a failed ping of P and a closed connection of Q can be handled: the
\* handling leaves this very state.
C12_Witness ==
    /\ now = 1
    /\ \E e \in peers_set :
         e.key = "P" /\ e.value.ping = <<7>> /\ e.value.last_seen = 0
    /\ ~ContainsKey(peers_set, "Q")
    /\ ENABLED LogOnly("PingErr", "P")
    /\ ENABLED LogOnly("ConnectionClosed", "Q")

-----------------------------------------------------------------------------
(* The startup of main, up to the loop *)

\* The environments main may start in.
\*   dotenv: the .env file of dotenv::dotenv()?;
\*   key:    BOTUN_AURA_RENDEZVOUS_SERVER_KEY (load_keypair_from_env);
\*   p2p:    what swarm.listen_on does with the two wildcard addresses;
\*   http:   BOTUN_AURA_SERVER_HTTP_ENDPOINT and what TcpListener::bind does with it.
Envs ==
    [dotenv : {"ok", "missing"},
     key    : {"ok", "unset", "bad_hex", "bad_length"},
     p2p    : {"ok", "v4_fails", "v6_fails"},
     http   : {"ok", "unset", "invalid", "in_use"}]

\* dotenv::dotenv()?: an error is returned from main.
Dotenv ==
    /\ main_pc = "dotenv"
    /\ main_pc' = IF env.dotenv = "ok" THEN "load_keypair" ELSE "exited"
    /\ UNCHANGED <<peers_set, now, lock, TickVars, HttpVars, upserts, NormVars,
                   BootVars, EngineVars>>

\* load_keypair_from_env: every expect and the assert_eq! panic in main.
LoadKeypair ==
    /\ main_pc = "load_keypair"
    /\ main_pc' = IF env.key = "ok" THEN "listen" ELSE "exited"
    /\ UNCHANGED <<peers_set, now, lock, TickVars, HttpVars, upserts, NormVars,
                   BootVars, EngineVars>>

\* listen_on_all_interfaces: each listen_on(..).expect(..) panics in main.
ListenOnAllInterfaces ==
    /\ main_pc = "listen"
    /\ main_pc' = IF env.p2p = "ok" THEN "api_listen" ELSE "exited"
    /\ UNCHANGED <<peers_set, now, lock, TickVars, HttpVars, upserts, NormVars,
                   BootVars, EngineVars>>

\* env::var(..).expect(..) panics in main when the variable is unset; otherwise
\* the HTTP task is spawned, the interval is made and main enters its loop.
SpawnHttp ==
    /\ main_pc = "api_listen"
    /\ IF env.http = "unset"
       THEN main_pc' = "exited" /\ UNCHANGED http_task
       ELSE main_pc' = "select" /\ http_task' = "spawned"
    /\ UNCHANGED <<peers_set, now, lock, TickVars, HttpVars, upserts, NormVars,
                   env, EngineVars>>

\* TcpListener::bind(api_listen).await.unwrap(), in the spawned task: the panic
\* ends the task, whose JoinHandle nobody holds; main is not told.
BindOutcome(endpoint) ==
    IF endpoint = "ok" THEN [task |-> "serving", main |-> main_pc]
    ELSE [task |-> "panicked", main |-> main_pc]

\* The spawned task runs up to axum::serve.
HttpBind ==
    /\ main_pc # "exited"
    /\ http_task = "spawned"
    /\ http_task' = BindOutcome(env.http).task
    /\ main_pc' = BindOutcome(env.http).main
    /\ UNCHANGED <<peers_set, now, lock, TickVars, HttpVars, upserts, NormVars,
                   env, EngineVars>>

InitBoot ==
    /\ peers_set = {}
    /\ now = 0
    /\ main_pc = "dotenv"
    /\ lock = "free"
    /\ tick_keys = {}
    /\ tick_addrs = <<>>
    /\ dials = EmptyBag
    /\ http_pc = NoHttp
    /\ http_peers = [h \in Handlers |-> <<>>]
    /\ clone_keys = {}
    /\ upserts = NoUpserts
    /\ norm_in = [peer |-> "P", address |-> <<>>]
    /\ norm_out = <<>>
    /\ env \in Envs
    /\ http_task = "none"
    /\ registrations = {}
    /\ pending = None
    /\ tick_due = FALSE

\* The startup, then the dispatcher over the input sets of SpecHttp.
NextBoot ==
    \/ Dotenv
    \/ LoadKeypair
    \/ ListenOnAllInterfaces
    \/ SpawnHttp
    \/ HttpBind
    \/ \E p \in PeerIds, ns \in Namespaces :
         \E as \in SmallAddrLists(p) : PeerRegistered(p, Registration(ns, p, as))
         /\ UNCHANGED <<upserts, EngineVars>>
    \/ \E p \in PeerIds, ns \in Namespaces :
         RegistrationExpired(Registration(ns, p, <<>>)) /\ UNCHANGED EngineVars
    \/ \E p \in PeerIds : PingOk(p, 7000) /\ UNCHANGED EngineVars
    \/ TickStart /\ UNCHANGED EngineVars
    \/ \E p \in PeerIds : TickPeer(p)
    \/ \E dial_ok \in BOOLEAN : TickDial(dial_ok)
    \/ TickEnd

SpecBoot == InitBoot /\ [][NextBoot]_vars

\* A step of the startup has failed: the key material is missing or malformed, a
\* listener of the swarm could not be bound, the HTTP endpoint is unset, or the
\* bind of the HTTP endpoint has failed.
StartupFailed ==
    \/ env.key # "ok" /\ main_pc \notin {"dotenv", "load_keypair"}
    \/ env.p2p # "ok" /\ main_pc \notin {"dotenv", "load_keypair", "listen"}
    \/ env.http = "unset" /\ main_pc \notin {"dotenv", "load_keypair", "listen", "api_listen"}
    \/ http_task = "panicked"

\* C13: once a step of the startup has failed, main is not in its loop: it is
\* neither at the select nor handling a tick.
C13_FailedStartupNeverReachesTheLoop ==
    StartupFailed => main_pc \notin {"select", "tick"}

\* C14: every step that changes the registry is the dispatcher, at its select,
\* handling a PeerRegistered, a RegistrationExpired or a successful ping; and no
\* step of a GET /peers handler (request, lock, copy, unlock, respond), in
\* whatever state the other handler and the dispatcher are, changes the registry.
C14_DispatcherIsTheOnlyWriter ==
    /\ [][peers_set' # peers_set
            => /\ AtSelect
               /\ \E p \in PeerIds :
                    \/ \E ns \in Namespaces : RegistrationExpired(Registration(ns, p, <<>>))
                    \/ \E rtt \in Rtts : PingOk(p, rtt)
                    \/ \E ns \in Namespaces : \E as \in AddrLists(p) :
                         PeerRegistered(p, Registration(ns, p, as))]_vars
    /\ [](\A h \in Handlers :
            /\ ~ENABLED (HttpRequest(h) /\ peers_set' # peers_set)
            /\ ~ENABLED (HttpLock(h) /\ peers_set' # peers_set)
            /\ \A k \in PeerIds : ~ENABLED (HttpCopy(h, k) /\ peers_set' # peers_set)
            /\ ~ENABLED (HttpUnlock(h) /\ peers_set' # peers_set)
            /\ ~ENABLED (HttpRespond(h) /\ peers_set' # peers_set))

\* Two requests have been served their copies at different times: both responses
\* are in flight, each lists the record of P, the two differ, and the registry
\* holds the later one.
C14_Witness ==
    /\ http_pc = [h \in Handlers |-> "respond"]
    /\ http_peers["h1"] # http_peers["h2"]
    /\ \A h \in Handlers : Len(http_peers[h]) = 1 /\ http_peers[h][1].peer = "12D3KooWP"
    /\ Values(peers_set) = {http_peers["h2"][1]}

\* C15: a step in which swarm.dial is called (the bag of dials grows) is taken
\* with the mutex of the registry free.
C15_NoDialUnderTheLock ==
    [][BagCardinality(dials') > BagCardinality(dials) => lock = "free"]_vars

\* C16: a handler holds the mutex of the registry only while it copies the
\* records out: a handler that is idle, waiting for the mutex, or serializing and
\* sending its response does not hold it.
C16_HandlerRespondsWithoutTheLock ==
    \A h \in Handlers : lock = h => http_pc[h] = "copy"

\* A handler is sending a response of two records while the other handler holds
\* the mutex and copies.
C16_Witness ==
    /\ http_pc["h1"] = "respond"
    /\ Len(http_peers["h1"]) = 2
    /\ lock = "h2"
    /\ http_pc["h2"] = "copy"

-----------------------------------------------------------------------------
(* The select! of the loop with its two sources: swarm.select_next_some() and  *)
(* ping_peers_tick.tick().  Each turn of the loop polls the two branches in a  *)
(* random order and runs the arm of the first that is ready.                   *)

\* An event of the swarm, as the select! receives it.
Event(kind, peer, addresses, rtt) ==
    [kind |-> kind, peer |-> peer, addresses |-> addresses, rtt |-> rtt]

\* The events of SpecFair.
FairEvents ==
    {Event("PeerRegistered", p, as, 0) : p \in PeerIds, as \in SmallAddrLists("P")
                                                             \cup SmallAddrLists("Q")}
      \cup {Event("RegistrationExpired", p, <<>>, 0) : p \in PeerIds}
      \cup {Event("PingOk", p, <<>>, 7000) : p \in PeerIds}
      \cup {Event(kind, p, <<>>, 0) : kind \in LogOnlyKinds, p \in PeerIds}

\* The swarm has an event ready for select_next_some().
EventArrives(e) ==
    /\ main_pc # "exited"
    /\ pending = None
    /\ e.kind = "PeerRegistered" => e.addresses \in SmallAddrLists(e.peer)
    /\ pending' = Some(e)
    /\ UNCHANGED <<ProgramVars, registrations, tick_due>>

\* The period of the interval has elapsed: ping_peers_tick.tick() is ready.
TickDue ==
    /\ main_pc # "exited"
    /\ ~tick_due
    /\ tick_due' = TRUE
    /\ UNCHANGED <<ProgramVars, registrations, pending>>

\* The select! takes the event branch: the match runs the arm of the event.
HandlePending ==
    /\ pending # None
    /\ LET event == pending[1]
       IN  \/ /\ event.kind = "PeerRegistered"
              /\ \E ns \in Namespaces :
                   PeerRegistered(event.peer,
                                  Registration(ns, event.peer, event.addresses))
              /\ UNCHANGED upserts
           \/ /\ event.kind = "RegistrationExpired"
              /\ \E ns \in Namespaces :
                   RegistrationExpired(Registration(ns, event.peer, <<>>))
           \/ /\ event.kind = "PingOk"
              /\ PingOk(event.peer, event.rtt)
           \/ LogOnly(event.kind, event.peer)
    /\ pending' = None
    /\ UNCHANGED <<registrations, tick_due>>

\* The select! takes the tick branch.
SelectTick ==
    /\ tick_due
    /\ TickStart
    /\ tick_due' = FALSE
    /\ UNCHANGED <<registrations, pending>>

NextFair ==
    \/ \E e \in FairEvents : EventArrives(e)
    \/ TickDue
    \/ HandlePending
    \/ SelectTick
    \/ \E p \in PeerIds : TickPeer(p)
    \/ \E dial_ok \in BOOLEAN : TickDial(dial_ok)
    \/ TickEnd

\* main runs whenever it can: an arm that has started goes on to its end, and a
\* branch of the select! that is ready again and again is taken (the order in
\* which select! polls its branches is drawn at random on every turn).
FairDispatcher ==
    /\ WF_vars(\E p \in PeerIds : TickPeer(p))
    /\ WF_vars(\E dial_ok \in BOOLEAN : TickDial(dial_ok))
    /\ WF_vars(TickEnd)
    /\ SF_vars(HandlePending)
    /\ SF_vars(SelectTick)

SpecFair == Init /\ [][NextFair]_vars /\ FairDispatcher

\* C17: an event the swarm has ready is eventually handled and a tick that is
\* due is eventually processed, whatever the other source does; and while a tick
\* is being processed no event is taken and the registry does not change.
C17_FairAndOneAtATime ==
    /\ (pending # None) ~> (pending = None)
    /\ tick_due ~> ~tick_due
    /\ [][main_pc = "tick"
            => (peers_set' = peers_set /\ (pending # None => pending' = pending))]_vars

-----------------------------------------------------------------------------
(* The rendezvous behaviour's side: the registrations it holds, one per peer  *)
(* and namespace, and the events it reports when they come and go.            *)

\* The namespaces of SpecEngine.
EngineNamespaces == {"aura", "chat"}

\* A peer registers under a namespace (anew, or again before the expiry): the
\* behaviour stores the registration and reports PeerRegistered.
EngineRegister(p, ns, as) ==
    /\ registrations' = registrations \cup {<<p, ns>>}
    /\ PeerRegistered(p, Registration(ns, p, as))
    /\ UNCHANGED <<upserts, pending, tick_due>>

\* The time to live of a registration is over: the behaviour drops it and
\* reports RegistrationExpired.
EngineExpire(p, ns) ==
    /\ <<p, ns>> \in registrations
    /\ registrations' = registrations \ {<<p, ns>>}
    /\ RegistrationExpired(Registration(ns, p, <<>>))
    /\ UNCHANGED <<pending, tick_due>>

\* A peer withdraws its registration: the behaviour drops it and reports
\* PeerUnregistered, which the match takes in its catch-all arm.
EngineUnregister(p, ns) ==
    /\ <<p, ns>> \in registrations
    /\ registrations' = registrations \ {<<p, ns>>}
    /\ LogOnly("Other", p)
    /\ UNCHANGED <<pending, tick_due>>

NextEngine ==
    \/ \E p \in PeerIds, ns \in EngineNamespaces :
         \E as \in SmallAddrLists(p) : EngineRegister(p, ns, as)
    \/ \E p \in PeerIds, ns \in EngineNamespaces : EngineExpire(p, ns)
    \/ \E p \in PeerIds, ns \in EngineNamespaces : EngineUnregister(p, ns)
    \/ \E p \in PeerIds : PingOk(p, 7000) /\ UNCHANGED EngineVars

SpecEngine == Init /\ [][NextEngine]_vars

\* C18: an identity has a record in the registry exactly when the rendezvous
\* behaviour holds a registration of it, under whatever namespace.
C18_RecordIffValidRegistration ==
    \A p \in PeerIds :
        ContainsKey(peers_set, p) <=> \E ns \in EngineNamespaces : <<p, ns>> \in registrations

\* C19: every address stored in the registry parses back into a Multiaddr, and
\* main, once in its loop, has not left it.
C19_StoredAddressesParseAndLoopRuns ==
    /\ \A e \in peers_set : \A i \in 1..Len(e.value.addrinfo) :
         Parse(e.value.addrinfo[i].address).ok
    /\ main_pc \in {"select", "tick"}

-----------------------------------------------------------------------------
(* The dispatcher and the GET /peers handlers under fair scheduling *)

\* Every task runs whenever it can: a started tick and a started handler go on to
\* their end, and a handler that waits for the mutex gets it if the mutex is free
\* again and again.
FairHttp ==
    /\ WF_vars(\E p \in PeerIds : TickPeer(p))
    /\ WF_vars(\E dial_ok \in BOOLEAN : TickDial(dial_ok))
    /\ WF_vars(TickEnd)
    /\ \A h \in Handlers :
         /\ SF_vars(HttpLock(h))
         /\ WF_vars(\E k \in PeerIds : HttpCopy(h, k))
         /\ WF_vars(HttpUnlock(h))
         /\ WF_vars(HttpRespond(h))

\* The arms that take the mutex (registration, expiry, tick) and the handlers.
NextFairHttp ==
    \/ \E p \in PeerIds, ns \in Namespaces :
         \E as \in SmallAddrLists(p) : PeerRegistered(p, Registration(ns, p, as))
         /\ UNCHANGED <<upserts, EngineVars>>
    \/ \E p \in PeerIds, ns \in Namespaces :
         RegistrationExpired(Registration(ns, p, <<>>)) /\ UNCHANGED EngineVars
    \/ TickStart /\ UNCHANGED EngineVars
    \/ \E p \in PeerIds : TickPeer(p)
    \/ \E dial_ok \in BOOLEAN : TickDial(dial_ok)
    \/ TickEnd
    \/ \E h \in Handlers : HttpRequest(h)
    \/ \E h \in Handlers : HttpLock(h)
    \/ \E h \in Handlers, k \in PeerIds : HttpCopy(h, k)
    \/ \E h \in Handlers : HttpUnlock(h)
    \/ \E h \in Handlers : HttpRespond(h)

SpecFairHttp == Init /\ [][NextFairHttp]_vars /\ FairHttp

\* C20: the mutex of the registry, once taken by the dispatcher or by a handler,
\* is released; a handler that asks for it eventually holds it; and every GET
\* /peers request is eventually answered.
C20_LockIsReleasedAndRequestsAreAnswered ==
    /\ (lock # "free") ~> (lock = "free")
    /\ \A h \in Handlers :
         /\ (http_pc[h] = "lock") ~> (lock = h)
         /\ (http_pc[h] # "idle") ~> (http_pc[h] = "idle")

====
